---- MODULE Spec2Model ----
(***************************************************************************)
(* QR attendance (src/app.py): the sessions table, the attendance table,   *)
(* the rotating-token validator, the attendance write, the presenter       *)
(* (teacher) view and the participant (mark) page, as a state machine.     *)
(* Strings that the code takes apart (session names, tokens, registration  *)
(* numbers) are sequences of one-character strings; messages are opaque.   *)
(***************************************************************************)
EXTENDS Integers, Sequences, FiniteSets, TLC

VARIABLES
    now,          \* what time.time() reads, in whole seconds (now_int)
    sessions,     \* table sessions: a set of rows [id, name, started, ended]
    attendance,   \* table attendance: rows in rowid order
    call,         \* per caller: where its mark-page run or record_attendance call stands,
                  \* and its arguments and local values
    ret,          \* the last value returned by an operation of the core
    was_ended,    \* history: the last call was a start_session/end_session that found its row ended
    again,        \* history: the last token_valid call re-presented the token that the
                  \* call before it had accepted at an earlier clock reading
    view,         \* st.session_state of the presenter's browser tab
    run,          \* where the presenter's script run stands, and its local values
    hist,         \* history of the presenter view: the sessions it started, the session
                  \* its session_end_ts was set for, and what
                  \* its current or last script run did
    submitted_once,  \* st.session_state.submitted_once of the participant's browser
    zone          \* the UTC offset of the server's local time zone, in seconds

vars == <<now, sessions, attendance, call, ret, was_ended, again,
          view, run, hist, submitted_once, zone>>

\* the state of the two pages, which the functions of the core never touch
ui == <<view, run, hist, submitted_once, zone>>

----------------------------------------------------------------------------
(* Program constants *)

QR_REFRESH == 1

TOKEN_WINDOW == 30

(* Bounds of the model *)

\* the clock reads 0, or any second from TOKEN_WINDOW to MaxTime
MaxTime == 31

\* rows the attendance table may hold
MaxRows == 2

Times == {0} \cup (TOKEN_WINDOW..MaxTime)

\* callers that may be inside record_attendance at the same time
Procs == {"p1", "p2"}

\* other browser tabs of the presenter, each a script run of its own
Tabs == {"t1", "t2"}

\* every thread that may be inside a function of the core
Callers == Procs \cup Tabs

NameA == <<"A">>

NameB == <<"B">>

Names == {NameA, NameB}

Reg1 == <<"R", "1">>

Reg2 == <<"R", "2">>

RegNos == {Reg1, Reg2}

----------------------------------------------------------------------------
(* Python string and integer primitives used by the token codec *)

Digits == <<"0", "1", "2", "3", "4", "5", "6", "7", "8", "9">>

IsDigit(c) == \E i \in 1..10 : Digits[i] = c

DigitVal(c) == (CHOOSE i \in 1..10 : Digits[i] = c) - 1

abs(x) == IF x < 0 THEN -x ELSE x

\* str(n) for n >= 0
RECURSIVE NatToStr(_)
NatToStr(n) ==
    IF n < 10 THEN <<Digits[n + 1]>>
    ELSE NatToStr(n \div 10) \o <<Digits[(n % 10) + 1]>>

\* f"{n}" for an int
IntToStr(n) == IF n < 0 THEN <<"-">> \o NatToStr(-n) ELSE NatToStr(n)

\* value of a non-empty run of decimal digits
RECURSIVE DigitsToNat(_)
DigitsToNat(s) ==
    IF Len(s) = 0 THEN 0
    ELSE 10 * DigitsToNat(SubSeq(s, 1, Len(s) - 1)) + DigitVal(s[Len(s)])

\* the ASCII characters int() skips around a literal: space, \t, \n, \r, \f and
\* the vertical tab (written as the character itself)
IntWhitespace == {" ", "\t", "\n", "\r", "\f", ""}

\* the ASCII characters str.strip() removes: those, and the separators
\* \x1c..\x1f (written as the characters themselves)
Whitespace == IntWhitespace \cup {"", "", "", ""}

\* s with the characters of `blanks` removed at both ends
RECURSIVE StripOf(_, _)
StripOf(s, blanks) ==
    IF Len(s) = 0 THEN s
    ELSE IF s[1] \in blanks THEN StripOf(Tail(s), blanks)
    ELSE IF s[Len(s)] \in blanks THEN StripOf(SubSeq(s, 1, Len(s) - 1), blanks)
    ELSE s

\* s.strip()
strip(s) == StripOf(s, Whitespace)

\* decimal digits, with single underscores allowed between two digits
AllDigits(s) ==
    /\ Len(s) > 0
    /\ \A i \in 1..Len(s) :
          \/ IsDigit(s[i])
          \/ s[i] = "_" /\ 1 < i /\ i < Len(s) /\ IsDigit(s[i - 1]) /\ IsDigit(s[i + 1])

HasSign(s) == Len(s) > 0 /\ s[1] \in {"-", "+"}

\* what int(s) scans: s without the blanks around it and without its sign
Unsigned(s) ==
    LET body == StripOf(s, IntWhitespace)
    IN  IF HasSign(body) THEN Tail(body) ELSE body

\* the digits and underscores int(s) scans before any other character
Scanned(s) ==
    LET u   == Unsigned(s)
        bad == { i \in 1..Len(u) : ~IsDigit(u[i]) /\ u[i] # "_" }
    IN  IF bad = {} THEN u
        ELSE SubSeq(u, 1, (CHOOSE i \in bad : \A j \in bad : i <= j) - 1)

\* sys.get_int_max_str_digits() of Python 3.11
MaxStrDigits == 4300

\* int(s) gives up on the number of digits it has scanned
OverDigitLimit(s) ==
    /\ Len(s) > MaxStrDigits
    /\ AllDigits(Scanned(s))
    /\ Len(SelectSeq(Scanned(s), IsDigit)) > MaxStrDigits

\* int(s) succeeds: surrounding whitespace, an optional sign, decimal digits, no
\* more of them than the limit
IsIntLiteral(s) ==
    LET u == Unsigned(s)
    IN  /\ AllDigits(u)
        /\ Len(u) <= MaxStrDigits \/ Len(SelectSeq(u, IsDigit)) <= MaxStrDigits

\* int(s), where it succeeds
ParseInt(s) ==
    LET body   == StripOf(s, IntWhitespace)
        digits == SelectSeq(Unsigned(s), IsDigit)
    IN  IF HasSign(body) /\ body[1] = "-" THEN -DigitsToNat(digits) ELSE DigitsToNat(digits)

\* s.split(sep)
RECURSIVE split(_, _)
split(s, sep) ==
    IF \A i \in 1..Len(s) : s[i] # sep THEN <<s>>
    ELSE LET k == CHOOSE i \in 1..Len(s) :
                    s[i] = sep /\ \A j \in 1..(i - 1) : s[j] # sep
         IN  <<SubSeq(s, 1, k - 1)>> \o split(SubSeq(s, k + 1, Len(s)), sep)

----------------------------------------------------------------------------
(* Token codec and clock *)

current_interval(t) == t \div QR_REFRESH

\* mutant: the encoder writes another delimiter than the decoder splits on
make_token_colon(session_name, interval) == session_name \o <<":">> \o IntToStr(interval)

make_token(session_name, interval) == session_name \o <<"|">> \o IntToStr(interval)

\* the intervals a token may name: those a presenter can have issued at the clock
\* readings of the model, and one written with a sign
Intervals == { current_interval(t) : t \in Times } \cup {-1}

\* strings a participant may present: issued tokens and malformed ones
Malformed ==
    { NameA,
      NameA \o <<"|", "x">>,
      NameA \o <<"|">>,
      NameA \o <<"|", "1", "|", "2">> }

Tokens == { make_token(n, i) : n \in Names, i \in Intervals } \cup Malformed

\* session names without the delimiter: one character, several with digits and an
\* underscore, one that reads as a signed number, and the empty name
CodecNames == { NameA, <<"A", "_", "7">>, <<"-", "1">>, <<>> }

\* intervals of one digit, of two, with a sign, and of a present-day clock
CodecIntervals == Intervals \cup {9, 10, 1761775200}

CodecTokens == { make_token(n, i) : n \in CodecNames, i \in CodecIntervals }

\* the decoding steps of token_valid: split on the delimiter, two parts, int()
decode(token) ==
    LET parts == split(token, "|")
    IN  IF Len(parts) # 2 \/ ~IsIntLiteral(parts[2])
        THEN [ok |-> FALSE, session_name |-> <<>>, interval |-> 0]
        ELSE [ok |-> TRUE, session_name |-> parts[1], interval |-> ParseInt(parts[2])]

----------------------------------------------------------------------------
(* Returned values.  A message is a tuple holding its text; None is the     *)
(* empty tuple, in the val field and in the msg field.                     *)

None == <<>>

MsgFormat == <<"Invalid token format.">>

\* str(ValueError) of int(lit): the text names the rejected literal
MsgValueError(lit) == <<"invalid literal for int() with base 10: ", lit>>

\* str(e) of the ValueError of int() over the digit limit
MsgDigitLimit(n) ==
    <<"Exceeds the limit (4300 digits) for integer string conversion: value has ",
      NatToStr(n), " digits; use sys.set_int_max_str_digits() to increase the limit">>

\* str(e) of the ValueError of int(lit)
MsgIntError(lit) ==
    IF OverDigitLimit(lit) THEN MsgDigitLimit(Len(SelectSeq(Scanned(lit), IsDigit)))
    ELSE MsgValueError(lit)

MsgExpired == <<"QR expired, please scan a fresh one.">>

MsgNotFound == <<"Session not found.">>

MsgEnded == <<"Session has ended.">>

MsgDuplicate == <<"This registration number has already submitted.">>

MsgMarked == <<"Attendance marked.">>

Result(ok, val, msg) == [ok |-> ok, val |-> val, msg |-> msg]

----------------------------------------------------------------------------
(* Sessions table *)

SessionRows(S, name) == { r \in S : r.name = name }

\* AUTOINCREMENT: one more than the largest rowid
NextId(S) == IF S = {} THEN 1 ELSE (CHOOSE m \in {r.id : r \in S} : \A r \in S : r.id <= m) + 1

\* mutant: INSERT OR IGNORE, an existing row is left as it is
start_session_or_ignore(S, unique_name, t) ==
    IF SessionRows(S, unique_name) # {} THEN S
    ELSE S \cup { [id |-> NextId(S), name |-> unique_name, started |-> t, ended |-> 0] }

\* INSERT OR REPLACE INTO sessions (id, name, started, ended)
\*   VALUES ((SELECT id FROM sessions WHERE name=?), ?, ?, 0)
start_session(S, unique_name, t) ==
    LET found == SessionRows(S, unique_name)
        id    == IF found = {} THEN NextId(S) ELSE (CHOOSE r \in found : TRUE).id
        kept  == { r \in S : r.id # id /\ r.name # unique_name }
    IN  kept \cup { [id |-> id, name |-> unique_name, started |-> t, ended |-> 0] }

\* mutant: the UPDATE has no WHERE clause
end_session_every_row(S, name, t) ==
    { [r EXCEPT !.ended = t] : r \in S }

\* mutant: ending an ended session clears its end time
end_session_toggle(S, name, t) ==
    { IF r.name = name THEN [r EXCEPT !.ended = IF r.ended # 0 THEN 0 ELSE t] ELSE r : r \in S }

\* UPDATE sessions SET ended=? WHERE name=?
end_session(S, name, t) ==
    { IF r.name = name THEN [r EXCEPT !.ended = t] ELSE r : r \in S }

\* mutant: bool(row and row[0]), the end time is not looked at
session_active_ignores_ended(S, name) ==
    \E r \in SessionRows(S, name) : r.started # 0

\* bool(row and row[0] and row[1] == 0)
session_active(S, name) ==
    LET found == SessionRows(S, name)
    IN  /\ found # {}
        /\ LET row == CHOOSE r \in found : TRUE
           IN  row.started # 0 /\ row.ended = 0

----------------------------------------------------------------------------
(* Token validator *)

\* mutant: a one-sided window, now - token_ts > TOKEN_WINDOW without abs()
token_valid_one_sided(S, token, t) ==
    LET parts == split(token, "|")
    IN  IF Len(parts) # 2 THEN Result(FALSE, None, MsgFormat)
        ELSE IF ~IsIntLiteral(parts[2]) THEN Result(FALSE, None, MsgIntError(parts[2]))
        ELSE LET token_ts == ParseInt(parts[2]) * QR_REFRESH
                 found    == SessionRows(S, parts[1])
             IN  IF t - token_ts > TOKEN_WINDOW THEN Result(FALSE, None, MsgExpired)
                 ELSE IF found = {} THEN Result(FALSE, None, MsgNotFound)
                 ELSE IF (CHOOSE r \in found : TRUE).ended # 0
                      THEN Result(FALSE, None, MsgEnded)
                 ELSE Result(TRUE, <<token_ts>>, None)

\* mutant: the ended column is not checked
token_valid_skips_ended(S, token, t) ==
    LET parts == split(token, "|")
    IN  IF Len(parts) # 2 THEN Result(FALSE, None, MsgFormat)
        ELSE IF ~IsIntLiteral(parts[2]) THEN Result(FALSE, None, MsgIntError(parts[2]))
        ELSE LET token_ts == ParseInt(parts[2]) * QR_REFRESH
             IN  IF abs(t - token_ts) > TOKEN_WINDOW THEN Result(FALSE, None, MsgExpired)
                 ELSE IF SessionRows(S, parts[1]) = {} THEN Result(FALSE, None, MsgNotFound)
                 ELSE Result(TRUE, <<token_ts>>, None)

\* mutant: the session is looked up before the window is checked
token_valid_lookup_first(S, token, t) ==
    LET parts == split(token, "|")
    IN  IF Len(parts) # 2 THEN Result(FALSE, None, MsgFormat)
        ELSE IF ~IsIntLiteral(parts[2]) THEN Result(FALSE, None, MsgIntError(parts[2]))
        ELSE LET token_ts == ParseInt(parts[2]) * QR_REFRESH
                 found    == SessionRows(S, parts[1])
             IN  IF found = {} THEN Result(FALSE, None, MsgNotFound)
                 ELSE IF (CHOOSE r \in found : TRUE).ended # 0
                      THEN Result(FALSE, None, MsgEnded)
                 ELSE IF abs(t - token_ts) > TOKEN_WINDOW THEN Result(FALSE, None, MsgExpired)
                 ELSE Result(TRUE, <<token_ts>>, None)

\* mutant: the session is looked up before the interval is parsed
token_valid_parse_late(S, token, t) ==
    LET parts == split(token, "|")
    IN  IF Len(parts) # 2 THEN Result(FALSE, None, MsgFormat)
        ELSE IF SessionRows(S, parts[1]) = {} THEN Result(FALSE, None, MsgNotFound)
        ELSE IF (CHOOSE r \in SessionRows(S, parts[1]) : TRUE).ended # 0 THEN Result(FALSE, None, MsgEnded)
        ELSE IF ~IsIntLiteral(parts[2]) THEN Result(FALSE, None, MsgIntError(parts[2]))
        ELSE LET token_ts == ParseInt(parts[2]) * QR_REFRESH
             IN  IF abs(t - token_ts) > TOKEN_WINDOW THEN Result(FALSE, None, MsgExpired)
                 ELSE Result(TRUE, <<token_ts>>, None)

\* mutant: a token exactly TOKEN_WINDOW seconds old is already expired
token_valid_strict_window(S, token, t) ==
    LET parts == split(token, "|")
    IN  IF Len(parts) # 2 THEN Result(FALSE, None, MsgFormat)
        ELSE IF ~IsIntLiteral(parts[2]) THEN Result(FALSE, None, MsgIntError(parts[2]))
        ELSE LET token_ts == ParseInt(parts[2]) * QR_REFRESH
                 found    == SessionRows(S, parts[1])
             IN  IF abs(t - token_ts) >= TOKEN_WINDOW THEN Result(FALSE, None, MsgExpired)
                 ELSE IF found = {} THEN Result(FALSE, None, MsgNotFound)
                 ELSE IF (CHOOSE r \in found : TRUE).ended # 0
                      THEN Result(FALSE, None, MsgEnded)
                 ELSE Result(TRUE, <<token_ts>>, None)

token_valid(S, token, t) ==
    LET parts == split(token, "|")
    IN  IF Len(parts) # 2 THEN Result(FALSE, None, MsgFormat)
        ELSE IF ~IsIntLiteral(parts[2]) THEN Result(FALSE, None, MsgIntError(parts[2]))
        ELSE LET session_name == parts[1]
                 interval     == ParseInt(parts[2])
                 token_ts     == interval * QR_REFRESH
                 found        == SessionRows(S, session_name)
             IN  IF abs(t - token_ts) > TOKEN_WINDOW THEN Result(FALSE, None, MsgExpired)
                 ELSE IF found = {} THEN Result(FALSE, None, MsgNotFound)
                 ELSE IF (CHOOSE r \in found : TRUE).ended # 0
                      THEN Result(FALSE, None, MsgEnded)
                 ELSE Result(TRUE, <<token_ts>>, None)

----------------------------------------------------------------------------
(* Attendance table *)

\* mutant: the existence check matches on reg_no alone
already_submitted_any_session(A, session_name, reg_no) ==
    \E i \in 1..Len(A) : A[i].reg_no = reg_no

\* SELECT id FROM attendance WHERE session_name=? AND reg_no=?  -- fetchone()
already_submitted(A, session_name, reg_no) ==
    \E i \in 1..Len(A) : A[i].session_name = session_name /\ A[i].reg_no = reg_no

\* INSERT INTO attendance (session_name, reg_no, token, token_ts, submit_ts)
insert_attendance(A, session_name, reg_no, token, token_ts, t) ==
    Append(A, [session_name |-> session_name, reg_no |-> reg_no, token |-> token,
               token_ts |-> token_ts, submit_ts |-> t])

\* the <<token, token_ts>> arguments record_attendance is called with
Payloads ==
    { <<make_token(NameA, 0), 0>>,
      <<make_token(NameB, current_interval(TOKEN_WINDOW)), TOKEN_WINDOW>> }

\* zero-padded decimal of width w
RECURSIVE Pad(_, _)
Pad(n, w) == IF w = 0 THEN <<>> ELSE Pad(n \div 10, w - 1) \o <<Digits[(n % 10) + 1]>>

\* proleptic Gregorian date of a day count since 1970-01-01, as <<y, m, d>>
CivilFromDays(days) ==
    LET z   == days + 719468
        era == z \div 146097
        doe == z - era * 146097
        yoe == (doe - (doe \div 1460) + (doe \div 36524) - (doe \div 146096)) \div 365
        doy == doe - (365 * yoe + (yoe \div 4) - (yoe \div 100))
        mp  == (5 * doy + 2) \div 153
        d   == doy - ((153 * mp + 2) \div 5) + 1
        m   == IF mp < 10 THEN mp + 3 ELSE mp - 9
        y   == yoe + era * 400 + (IF m <= 2 THEN 1 ELSE 0)
    IN  <<y, m, d>>

\* datetime(ts, 'unixepoch', '+5 hours', '30 minutes'): "YYYY-MM-DD HH:MM:SS"
datetime_ist(ts) ==
    LET t   == ts + 5 * 3600 + 30 * 60
        ymd == CivilFromDays(t \div 86400)
        sod == t % 86400
    IN  Pad(ymd[1], 4) \o <<"-">> \o Pad(ymd[2], 2) \o <<"-">> \o Pad(ymd[3], 2) \o <<" ">>
        \o Pad(sod \div 3600, 2) \o <<":">> \o Pad((sod % 3600) \div 60, 2) \o <<":">>
        \o Pad(sod % 60, 2)

\* ORDER BY submit_ts: rows in ascending submit_ts, rowid order among equals
RECURSIVE InsertSorted(_, _)
InsertSorted(sorted, row) ==
    IF sorted = <<>> THEN <<row>>
    ELSE IF sorted[Len(sorted)].submit_ts <= row.submit_ts THEN Append(sorted, row)
    ELSE Append(InsertSorted(SubSeq(sorted, 1, Len(sorted) - 1), row), sorted[Len(sorted)])

RECURSIVE OrderBySubmit(_)
OrderBySubmit(A) ==
    IF A = <<>> THEN <<>>
    ELSE InsertSorted(OrderBySubmit(SubSeq(A, 1, Len(A) - 1)), A[Len(A)])

\* SELECT reg_no, datetime(submit_ts, ...) FROM attendance WHERE session_name=? ORDER BY submit_ts
fetch_attendance(A, session_name) ==
    LET rows == OrderBySubmit(SelectSeq(A, LAMBDA r : r.session_name = session_name))
    IN  [i \in 1..Len(rows) |-> <<rows[i].reg_no, datetime_ist(rows[i].submit_ts)>>]

Idle == [pc |-> "idle"]

InFlight == { p \in Procs : call[p].pc # "idle" }

----------------------------------------------------------------------------------------------------------------------------------------
(* Initial state: the tables as init_db creates them, nobody calling *)

Returned(op, args, res) == [op |-> op, at |-> now, args |-> args, res |-> res]

\* the row of `name` carries an end time
HasEnded(S, name) == \E r \in SessionRows(S, name) : r.ended # 0

\* st.session_state of a fresh presenter tab; the empty string is the empty sequence
FreshView ==
    [session_started |-> FALSE, session_end_ts |-> None, running_session_name |-> <<>>,
     running_session_display |-> <<>>, last_session_name |-> <<>>]

\* no script run in progress
NoRun == [pc |-> "idle", unique_name |-> <<>>, base |-> <<>>, timer_minutes |-> 0,
          read_at |-> 0, slept_at |-> 0]

\* nothing started, no token rendered, nothing ended by the timer, no session
\* that session_end_ts was set for
NoHist == [started |-> {}, issued |-> <<>>, auto_ended |-> <<>>, timed |-> <<>>]

\* the zones the server may run in: UTC, and Asia/Kolkata
Zones == {0, 5 * 3600 + 30 * 60}

\* the tables as init_db creates them, nobody calling, the pages not yet opened
Fresh ==
    /\ now = 0
    /\ sessions = {}
    /\ attendance = <<>>
    /\ call = [p \in Callers |-> Idle]
    /\ ret = [op |-> "none", at |-> 0, args |-> <<>>, res |-> Result(FALSE, None, None)]
    /\ was_ended = FALSE
    /\ again = FALSE
    /\ view = FreshView
    /\ run = NoRun
    /\ hist = NoHist
    /\ submitted_once = FALSE

\* the functions of the core do not read the server's zone
Init == Fresh /\ zone = 0

\* the presenter's page formats local time: the server runs in any of the zones
PageInit == Fresh /\ zone \in Zones

\* time passes
Tick ==
    /\ \E t \in Times : t > now /\ now' = t
    /\ UNCHANGED <<sessions, attendance, call, ret, was_ended, again, ui>>

\* mutant: a restart of a session clears the rows recorded under its name
StartSessionClearing(name) ==
    /\ sessions' = start_session(sessions, name, now)
    /\ attendance' = SelectSeq(attendance, LAMBDA r : r.session_name # name)
    /\ ret' = Returned("start_session", <<name>>, Result(TRUE, None, None))
    /\ was_ended' = HasEnded(sessions, name)
    /\ again' = FALSE
    /\ UNCHANGED <<now, call, ui>>

StartSession(name) ==
    /\ sessions' = start_session(sessions, name, now)
    /\ ret' = Returned("start_session", <<name>>, Result(TRUE, None, None))
    /\ was_ended' = HasEnded(sessions, name)
    /\ again' = FALSE
    /\ UNCHANGED <<now, attendance, call, ui>>

EndSession(name) ==
    /\ sessions' = end_session(sessions, name, now)
    /\ ret' = Returned("end_session", <<name>>, Result(TRUE, None, None))
    /\ was_ended' = HasEnded(sessions, name)
    /\ again' = FALSE
    /\ UNCHANGED <<now, attendance, call, ui>>

\* start_session under concurrent callers: now_int() is evaluated as an argument
\* of cur.execute, and the statement runs later
StartSessionRead(p, name) ==
    /\ call[p].pc = "idle"
    /\ call' = [call EXCEPT ![p] = [pc |-> "start_session", name |-> name, at |-> now]]
    /\ again' = FALSE
    /\ was_ended' = FALSE
    /\ UNCHANGED <<now, sessions, attendance, ret, ui>>

\* the INSERT OR REPLACE of start_session, with the reading taken before
StartSessionWrite(p) ==
    /\ call[p].pc = "start_session"
    /\ sessions' = start_session(sessions, call[p].name, call[p].at)
    /\ ret' = [op |-> "start_session", at |-> call[p].at, args |-> <<call[p].name>>,
               res |-> Result(TRUE, None, None)]
    /\ was_ended' = HasEnded(sessions, call[p].name)
    /\ again' = FALSE
    /\ call' = [call EXCEPT ![p] = Idle]
    /\ UNCHANGED <<now, attendance, ui>>

\* end_session under concurrent callers: the clock reading, then the statement
EndSessionRead(p, name) ==
    /\ call[p].pc = "idle"
    /\ call' = [call EXCEPT ![p] = [pc |-> "end_session", name |-> name, at |-> now]]
    /\ again' = FALSE
    /\ was_ended' = FALSE
    /\ UNCHANGED <<now, sessions, attendance, ret, ui>>

\* the UPDATE of end_session, with the reading taken before
EndSessionWrite(p) ==
    /\ call[p].pc = "end_session"
    /\ sessions' = end_session(sessions, call[p].name, call[p].at)
    /\ ret' = [op |-> "end_session", at |-> call[p].at, args |-> <<call[p].name>>,
               res |-> Result(TRUE, None, None)]
    /\ was_ended' = HasEnded(sessions, call[p].name)
    /\ again' = FALSE
    /\ call' = [call EXCEPT ![p] = Idle]
    /\ UNCHANGED <<now, attendance, ui>>

SessionActive(name) ==
    /\ ret' = Returned("session_active", <<name>>,
                       Result(session_active(sessions, name), None, None))
    /\ again' = FALSE
    /\ was_ended' = FALSE
    /\ UNCHANGED <<now, sessions, attendance, call, ui>>

\* mutant: an accepted token is used up, its session is closed
ValidateTokenConsuming(token) ==
    LET res == token_valid(sessions, token, now)
    IN  /\ ret' = Returned("token_valid", <<token>>, res)
        /\ sessions' = IF res.ok THEN end_session(sessions, split(token, "|")[1], now)
                        ELSE sessions
        /\ again' = (ret.op = "token_valid" /\ ret.args = <<token>> /\ ret.res.ok /\ ret.at < now)
        /\ was_ended' = FALSE
        /\ UNCHANGED <<now, attendance, call, ui>>

ValidateToken(token) ==
    /\ ret' = Returned("token_valid", <<token>>, token_valid(sessions, token, now))
    /\ again' = (ret.op = "token_valid" /\ ret.args = <<token>> /\ ret.res.ok /\ ret.at < now)
    /\ was_ended' = FALSE
    /\ UNCHANGED <<now, sessions, attendance, call, ui>>

\* record_attendance up to the result of its SELECT: a duplicate returns at once
RecordSelect(p, session_name, reg_no, token, token_ts) ==
    /\ call[p].pc = "idle"
    /\ Len(attendance) + Cardinality(InFlight) < MaxRows
    /\ IF already_submitted(attendance, session_name, reg_no)
       THEN /\ ret' = Returned("record_attendance", <<session_name, reg_no, token, token_ts>>,
                               Result(FALSE, None, MsgDuplicate))
            /\ UNCHANGED call
       ELSE /\ call' = [call EXCEPT ![p] =
                          [pc |-> "stamp", session_name |-> session_name, reg_no |-> reg_no,
                           token |-> token, token_ts |-> token_ts, submit_ts |-> 0]]
            /\ UNCHANGED ret
    /\ again' = FALSE
    /\ was_ended' = FALSE
    /\ UNCHANGED <<now, sessions, attendance, ui>>

\* record_attendance evaluating now_int(), the last argument of its INSERT
RecordStamp(p) ==
    /\ call[p].pc = "stamp"
    /\ call' = [call EXCEPT ![p] = [@ EXCEPT !.pc = "insert", !.submit_ts = now]]
    /\ again' = FALSE
    /\ was_ended' = FALSE
    /\ UNCHANGED <<now, sessions, attendance, ret, ui>>

\* record_attendance from the execution of its INSERT to its return
RecordInsert(p) ==
    /\ call[p].pc = "insert"
    /\ attendance' = insert_attendance(attendance, call[p].session_name, call[p].reg_no,
                                       call[p].token, call[p].token_ts, call[p].submit_ts)
    /\ ret' = Returned("record_attendance",
                       <<call[p].session_name, call[p].reg_no, call[p].token, call[p].token_ts>>,
                       Result(TRUE, None, MsgMarked))
    /\ call' = [call EXCEPT ![p] = Idle]
    /\ again' = FALSE
    /\ was_ended' = FALSE
    /\ UNCHANGED <<now, sessions, ui>>

\* record_attendance run with no other caller in between
RecordAttendance(session_name, reg_no, token, token_ts) ==
    /\ InFlight = {}
    /\ IF already_submitted(attendance, session_name, reg_no)
       THEN /\ ret' = Returned("record_attendance", <<session_name, reg_no, token, token_ts>>,
                               Result(FALSE, None, MsgDuplicate))
            /\ UNCHANGED attendance
       ELSE /\ Len(attendance) < MaxRows
            /\ attendance' = insert_attendance(attendance, session_name, reg_no,
                                               token, token_ts, now)
            /\ ret' = Returned("record_attendance", <<session_name, reg_no, token, token_ts>>,
                               Result(TRUE, None, MsgMarked))
    /\ again' = FALSE
    /\ was_ended' = FALSE
    /\ UNCHANGED <<now, sessions, call, ui>>

FetchAttendance(session_name) ==
    /\ ret' = Returned("fetch_attendance", <<session_name>>,
                       Result(TRUE, fetch_attendance(attendance, session_name), None))
    /\ again' = FALSE
    /\ was_ended' = FALSE
    /\ UNCHANGED <<now, sessions, attendance, call, ui>>

\* make_token applied to a name and an interval
MakeToken(session_name, interval) ==
    /\ ret' = Returned("make_token", <<session_name, interval>>,
                       Result(TRUE, make_token(session_name, interval), None))
    /\ again' = FALSE
    /\ was_ended' = FALSE
    /\ UNCHANGED <<now, sessions, attendance, call, ui>>

\* the token make_token has just returned is taken apart again
DecodeToken ==
    /\ ret.op = "make_token"
    /\ LET d == decode(ret.res.val)
       IN  ret' = Returned("decode", ret.args, Result(d.ok, <<d.session_name, d.interval>>, None))
    /\ again' = FALSE
    /\ was_ended' = FALSE
    /\ UNCHANGED <<now, sessions, attendance, call, ui>>

----------------------------------------------------------------------------
(* The presenter (teacher) view.  A run of the script in teacher mode reads *)
(* the clock and the sessions table several times; it is modelled statement *)
(* by statement, so that the clock and other tabs move in between.          *)

\* the clock readings of the presenter view: 0, TOKEN_WINDOW, and a minute after
\* each reading from TOKEN_WINDOW to MaxTime
ViewTimes == {0, TOKEN_WINDOW} \cup { t + 60 : t \in TOKEN_WINDOW..MaxTime }

\* what the presenter types as the base name: a name between blanks, or blanks
\* alone; the unique names then differ by the minute of the Start
Bases == { <<"", "A", " ">>, <<" ">> }

\* the minutes of the Timer field
TimerMinutes == {0, 1}

\* f"{base}_{suffix}" with suffix = strftime("%Y%m%d_%H%M") of
\* time.localtime(now_int() + ist_offset), in a server zone z seconds east of UTC
format_session_unique(base_name, t, z) ==
    LET base == IF strip(base_name) # <<>> THEN strip(base_name)
                ELSE <<"S", "e", "s", "s", "i", "o", "n">>
        u    == t + 5 * 3600 + 30 * 60 + z
        ymd  == CivilFromDays(u \div 86400)
        sod  == u % 86400
    IN  base \o <<"_">> \o Pad(ymd[1], 4) \o Pad(ymd[2], 2) \o Pad(ymd[3], 2)
        \o <<"_">> \o Pad(sod \div 3600, 2) \o Pad((sod % 3600) \div 60, 2)

\* now_int() + int(timer_minutes) * 60
deadline(t, timer_minutes) == t + timer_minutes * 60

\* truthiness of session_end_ts: neither None nor 0
timer_set(v) == v.session_end_ts # None /\ v.session_end_ts[1] # 0

\* mutant: the view trusts its own flag and does not ask the sessions table
qr_shown_local_only(S, v) == v.session_started /\ v.running_session_name # <<>>

\* is_active_db and is_active_local
qr_shown(S, v) ==
    LET is_active_db    == IF v.running_session_name # <<>>
                           THEN session_active(S, v.running_session_name) ELSE FALSE
        is_active_local == v.session_started /\ v.running_session_name # <<>>
    IN  is_active_db /\ is_active_local

\* a script run returns nothing to a caller of the core
PageRet == [op |-> "page", at |-> 0, args |-> <<>>, res |-> Result(TRUE, None, None)]

\* a new run of the script can begin: none is in progress, or the last one has
\* rendered the QR and its time.sleep(QR_REFRESH) is over
CanBegin ==
    \/ run.pc = "idle"
    \/ run.pc = "sleep" /\ now >= run.slept_at + QR_REFRESH

\* what a step of the presenter's script leaves alone
ScriptFrame ==
    /\ ret' = PageRet
    /\ again' = FALSE
    /\ was_ended' = FALSE
    /\ UNCHANGED <<now, attendance, call, submitted_once, zone>>

\* Start is pressed: the run begins, and with a non-blank base name it computes
\* unique_name = format_session_unique(base_session_name)
PressStart(base_session_name, timer_minutes) ==
    /\ CanBegin
    /\ run' = IF strip(base_session_name) # <<>>
              THEN [NoRun EXCEPT !.pc = "start",
                                 !.unique_name = format_session_unique(base_session_name,
                                                                       now, zone),
                                 !.base = base_session_name,
                                 !.timer_minutes = timer_minutes]
              ELSE [NoRun EXCEPT !.pc = "timer"]
    /\ hist' = [hist EXCEPT !.issued = <<>>, !.auto_ended = <<>>]
    /\ UNCHANGED <<sessions, view>>
    /\ ScriptFrame

\* start_session(unique_name) is entered: now_int() is evaluated as an argument of
\* its statement
StartRead ==
    /\ run.pc = "start"
    /\ run' = [run EXCEPT !.pc = "start_write", !.read_at = now]
    /\ UNCHANGED <<sessions, view, hist>>
    /\ ScriptFrame

\* the statement of start_session runs, with the reading taken before, and the
\* assignments to session_state follow
StartStore ==
    /\ run.pc = "start_write"
    /\ sessions' = start_session(sessions, run.unique_name, run.read_at)
    /\ view' = [view EXCEPT !.session_started = TRUE,
                            !.running_session_name = run.unique_name,
                            !.running_session_display = strip(run.base),
                            !.last_session_name = run.unique_name]
    /\ hist' = [hist EXCEPT !.started = @ \cup {run.unique_name}]
    /\ run' = [run EXCEPT !.pc = "deadline", !.unique_name = <<>>, !.base = <<>>,
                          !.read_at = 0]
    /\ ScriptFrame

\* session_end_ts = now_int() + int(timer_minutes) * 60, or None
StartDeadline ==
    /\ run.pc = "deadline"
    /\ view' = [view EXCEPT !.session_end_ts =
                   IF run.timer_minutes > 0 THEN <<deadline(now, run.timer_minutes)>>
                   ELSE None]
    /\ run' = [run EXCEPT !.pc = "timer", !.timer_minutes = 0]
    /\ hist' = [hist EXCEPT !.timed = IF run.timer_minutes > 0
                                      THEN view.running_session_name ELSE <<>>]
    /\ UNCHANGED sessions
    /\ ScriptFrame

\* End is pressed: the run begins, and with a session running it enters
\* end_session, where now_int() is evaluated as an argument of the statement
PressEnd ==
    /\ CanBegin
    /\ run' = IF view.running_session_name # <<>>
              THEN [NoRun EXCEPT !.pc = "end_write", !.read_at = now]
              ELSE [NoRun EXCEPT !.pc = "timer"]
    /\ hist' = [hist EXCEPT !.issued = <<>>, !.auto_ended = <<>>]
    /\ UNCHANGED <<sessions, view>>
    /\ ScriptFrame

\* the statement of the End handler's end_session runs, with the reading taken
\* before, and the assignments to session_state follow
EndStore ==
    /\ run.pc = "end_write"
    /\ sessions' = end_session(sessions, view.running_session_name, run.read_at)
    /\ view' = [view EXCEPT !.session_started = FALSE,
                            !.session_end_ts = None,
                            !.last_session_name = view.running_session_name,
                            !.running_session_name = <<>>,
                            !.running_session_display = <<>>]
    /\ run' = [run EXCEPT !.pc = "timer", !.read_at = 0]
    /\ hist' = [hist EXCEPT !.timed = <<>>]
    /\ ScriptFrame

\* time.sleep(QR_REFRESH); st.rerun(): the script runs again by itself
Rerun ==
    /\ run.pc = "sleep"
    /\ now >= run.slept_at + QR_REFRESH
    /\ run' = [NoRun EXCEPT !.pc = "timer"]
    /\ hist' = [hist EXCEPT !.issued = <<>>, !.auto_ended = <<>>]
    /\ UNCHANGED <<sessions, view>>
    /\ ScriptFrame

\* any other widget of the page makes the script run without Start or End
Interact ==
    /\ CanBegin
    /\ run' = [NoRun EXCEPT !.pc = "timer"]
    /\ hist' = [hist EXCEPT !.issued = <<>>, !.auto_ended = <<>>]
    /\ UNCHANGED <<sessions, view>>
    /\ ScriptFrame

\* "If timer expired": session_started and session_end_ts and now_int() >= it
TimerCheck ==
    /\ run.pc = "timer"
    /\ IF view.session_started /\ timer_set(view) /\ now >= view.session_end_ts[1]
       THEN IF view.running_session_name # <<>>
            THEN /\ run' = [run EXCEPT !.pc = "autoend"]
                 /\ UNCHANGED <<view, hist>>
            ELSE /\ run' = [run EXCEPT !.pc = "active"]
                 /\ view' = [view EXCEPT !.session_started = FALSE,
                                         !.session_end_ts = None,
                                         !.running_session_display = <<>>]
                 /\ hist' = [hist EXCEPT !.timed = <<>>]
       ELSE /\ run' = [run EXCEPT !.pc = "active"]
            /\ UNCHANGED <<view, hist>>
    /\ UNCHANGED sessions
    /\ ScriptFrame

\* the timer's end_session(running_session_name) is entered: now_int() is
\* evaluated as an argument of its statement
AutoEndRead ==
    /\ run.pc = "autoend"
    /\ run' = [run EXCEPT !.pc = "autoend_write", !.read_at = now]
    /\ UNCHANGED <<sessions, view, hist>>
    /\ ScriptFrame

\* the statement of the timer's end_session runs, with the reading taken before,
\* and the assignments to session_state follow
AutoEnd ==
    /\ run.pc = "autoend_write"
    /\ sessions' = end_session(sessions, view.running_session_name, run.read_at)
    /\ view' = [view EXCEPT !.last_session_name = view.running_session_name,
                            !.session_started = FALSE,
                            !.session_end_ts = None,
                            !.running_session_name = <<>>,
                            !.running_session_display = <<>>]
    /\ hist' = [hist EXCEPT !.auto_ended = view.running_session_name, !.timed = <<>>]
    /\ run' = [run EXCEPT !.pc = "active", !.read_at = 0]
    /\ ScriptFrame

\* "Check DB active state": session_active(running_session_name) and the local
\* flag; without both the run ends at st.info and nothing reruns it
ActiveCheck ==
    /\ run.pc = "active"
    /\ run' = [run EXCEPT !.pc = IF qr_shown(sessions, view) THEN "token" ELSE "idle"]
    /\ UNCHANGED <<sessions, view, hist>>
    /\ ScriptFrame

\* the token of current_interval() is made and rendered; time.sleep begins
RenderToken ==
    /\ run.pc = "token"
    /\ hist' = [hist EXCEPT !.issued = make_token(view.running_session_name,
                                                  current_interval(now))]
    /\ run' = [run EXCEPT !.pc = "sleep", !.slept_at = now]
    /\ UNCHANGED <<sessions, view>>
    /\ ScriptFrame

\* the statements of a run that has begun
ScriptStep ==
    \/ StartRead
    \/ StartStore
    \/ StartDeadline
    \/ EndStore
    \/ TimerCheck
    \/ AutoEndRead
    \/ AutoEnd
    \/ ActiveCheck
    \/ RenderToken

\* time passes while the page is shown
Wait ==
    /\ \E t \in ViewTimes : t > now /\ now' = t
    /\ UNCHANGED <<sessions, attendance, call, ret, was_ended, again, ui>>

\* the other tab of the presenter that is open next to the view
OtherTab == "t1"

\* the other tab enters end_session or start_session for a session of the table
OtherTabEnd == \E r \in sessions : EndSessionRead(OtherTab, r.name)

OtherTabStart == \E r \in sessions : StartSessionRead(OtherTab, r.name)

\* the statement of the other tab's call runs
OtherTabWrite == EndSessionWrite(OtherTab) \/ StartSessionWrite(OtherTab)

TeacherNext ==
    \/ Wait
    \/ \E b \in Bases, m \in TimerMinutes : PressStart(b, m)
    \/ PressEnd
    \/ Rerun
    \/ Interact
    \/ ScriptStep
    \/ OtherTabEnd
    \/ OtherTabStart
    \/ OtherTabWrite

TeacherSpec == PageInit /\ [][TeacherNext]_vars

\* the presenter view with no other tab open
TeacherSoloNext ==
    \/ Wait
    \/ \E b \in Bases, m \in TimerMinutes : PressStart(b, m)
    \/ PressEnd
    \/ Rerun
    \/ Interact
    \/ ScriptStep

TeacherSoloSpec == PageInit /\ [][TeacherSoloNext]_vars

\* the same, with every run going on to its end and the script rerunning itself
TeacherSoloLiveSpec == TeacherSoloSpec /\ WF_vars(ScriptStep) /\ WF_vars(Rerun)

----------------------------------------------------------------------------
(* The participant (mark) page.  A run of the script in mark mode validates *)
(* the token and then goes through record_attendance statement by           *)
(* statement, so that the presenter and the clock move in between.          *)

MsgIncomplete == <<"Invalid or incomplete QR link.">>

MsgNoReg == <<"Please enter registration number.">>

\* the character U+2714 (heavy check mark) that ends the two st.success texts: a
\* string of a module holds ASCII only, so the character is written by its code
\* point and stands for one character of the text
CheckMark == "U+2714"

\* "Your attendance is already recorded", a blank and the check mark
MsgAlready == <<"Your attendance is already recorded ", CheckMark>>

\* "Attendance Recorded", a blank and the check mark
MsgRecorded == <<"Attendance Recorded ", CheckMark>>

\* the `session` parameter of the link: a session name, or missing
SessionParams == Names \cup {<<>>}

\* the `token` parameter of the link: a token of each session, a malformed one,
\* or missing
TokenParams ==
    { make_token(NameA, 0), make_token(NameB, current_interval(TOKEN_WINDOW)),
      NameA \o <<"|", "x">>, <<>> }

\* what the participant types as registration number: a number between blanks,
\* or blanks alone
RegInputs == { <<"\f", "R", "1", "\t">>, <<" ">> }

\* the script run of the participant's browser
Browser == "p1"

\* what the page shows at the end of a run
PageResult(ok, msg) == [op |-> "mark", at |-> 0, args |-> <<>>, res |-> Result(ok, None, msg)]

\* a run of the script in mark mode begins, for a link with the parameters
\* `session` and `token`: an incomplete link stops the run, and otherwise
\* token_valid is entered and reads the clock
MarkOpen(session_name, token) ==
    /\ call[Browser].pc = "idle"
    /\ IF token = <<>> \/ session_name = <<>>
       THEN ret' = PageResult(FALSE, MsgIncomplete) /\ UNCHANGED call
       ELSE /\ UNCHANGED ret
            /\ call' = [call EXCEPT ![Browser] =
                          [pc |-> "lookup", session_name |-> session_name,
                           reg_no |-> <<>>, token |-> token, token_ts |-> 0,
                           submit_ts |-> 0, at |-> now, session_open |-> FALSE]]
    /\ again' = FALSE
    /\ was_ended' = FALSE
    /\ UNCHANGED <<now, sessions, attendance, ui>>

\* token_valid looks the session up and returns, with the clock reading it took
\* on entry; the run then reads the form, holding `reg` and with `sub` telling
\* whether Submit was pressed, and goes on to the call of record_attendance.
\* session_open is history: whether the session the row will be recorded under
\* had a row without end time at this validation.
MarkLookup(reg, sub) ==
    LET c   == call[Browser]
        res == token_valid(sessions, c.token, c.at)
    IN  /\ c.pc = "lookup"
        /\ IF ~res.ok
           THEN ret' = PageResult(FALSE, res.msg) /\ call' = [call EXCEPT ![Browser] = Idle]
           ELSE IF submitted_once
           THEN ret' = PageResult(TRUE, MsgAlready) /\ call' = [call EXCEPT ![Browser] = Idle]
           ELSE IF ~sub
           THEN ret' = PageResult(TRUE, None) /\ call' = [call EXCEPT ![Browser] = Idle]
           ELSE IF strip(reg) = <<>>
           THEN ret' = PageResult(FALSE, MsgNoReg) /\ call' = [call EXCEPT ![Browser] = Idle]
           ELSE /\ ret' = PageResult(TRUE, None)
                /\ call' = [call EXCEPT ![Browser] =
                              [pc |-> "select", session_name |-> c.session_name,
                               reg_no |-> strip(reg), token |-> c.token,
                               token_ts |-> res.val[1], submit_ts |-> 0,
                               session_open |->
                                  \E r \in sessions : r.name = c.session_name /\ r.ended = 0]]
        /\ again' = FALSE
        /\ was_ended' = FALSE
        /\ UNCHANGED <<now, sessions, attendance, ui>>

\* the SELECT of record_attendance: a duplicate returns at once and is shown
MarkSelect ==
    /\ call[Browser].pc = "select"
    /\ IF already_submitted(attendance, call[Browser].session_name, call[Browser].reg_no)
       THEN /\ ret' = PageResult(FALSE, MsgDuplicate)
            /\ call' = [call EXCEPT ![Browser] = Idle]
       ELSE /\ Len(attendance) < MaxRows
            /\ call' = [call EXCEPT ![Browser] = [@ EXCEPT !.pc = "stamp"]]
            /\ UNCHANGED ret
    /\ again' = FALSE
    /\ was_ended' = FALSE
    /\ UNCHANGED <<now, sessions, attendance, ui>>

\* the INSERT of record_attendance, its return, and submitted_once = True
MarkInsert ==
    /\ call[Browser].pc = "insert"
    /\ attendance' = insert_attendance(attendance, call[Browser].session_name,
                                       call[Browser].reg_no, call[Browser].token,
                                       call[Browser].token_ts, call[Browser].submit_ts)
    /\ submitted_once' = TRUE
    /\ ret' = PageResult(TRUE, MsgRecorded)
    /\ call' = [call EXCEPT ![Browser] = Idle]
    /\ again' = FALSE
    /\ was_ended' = FALSE
    /\ UNCHANGED <<now, sessions, view, run, hist, zone>>

\* the link is opened in another browser: a fresh st.session_state
NewBrowser ==
    /\ submitted_once
    /\ call[Browser].pc = "idle"
    /\ submitted_once' = FALSE
    /\ UNCHANGED <<now, sessions, attendance, call, ret, was_ended, again,
                   view, run, hist, zone>>

\* participants open links and submit while the presenter's tabs start and end a
\* session, every call of theirs a clock reading and then its statement
MarkNext ==
    \/ Tick
    \/ \E p \in Tabs : StartSessionRead(p, NameA)
    \/ \E p \in Tabs : StartSessionWrite(p)
    \/ \E p \in Tabs : EndSessionRead(p, NameA)
    \/ \E p \in Tabs : EndSessionWrite(p)
    \/ \E n \in SessionParams, tok \in TokenParams : MarkOpen(n, tok)
    \/ \E reg \in RegInputs, sub \in BOOLEAN : MarkLookup(reg, sub)
    \/ MarkSelect
    \/ RecordStamp(Browser)
    \/ MarkInsert
    \/ NewBrowser

MarkSpec == Init /\ [][MarkNext]_vars

\* participant R1 of session A submits the token of the current interval
CurrentSubmission ==
    RecordAttendance(NameA, Reg1, make_token(NameA, current_interval(now)),
                     current_interval(now) * QR_REFRESH)

\* the operations of the core, one caller at a time: every call is one step
Next ==
    \/ Tick
    \/ \E n \in Names : StartSession(n)
    \/ \E n \in Names : EndSession(n)
    \/ \E n \in Names : SessionActive(n)
    \/ \E tok \in Tokens : ValidateToken(tok)
    \/ CurrentSubmission
    \/ \E n \in Names : FetchAttendance(n)

Spec == Init /\ [][Next]_vars

\* the attendance ledger alone, one caller at a time, with any arguments
LedgerNext ==
    \/ Tick
    \/ \E n \in Names, r \in RegNos, pl \in Payloads :
          RecordAttendance(n, r, pl[1], pl[2])
    \/ \E n \in Names : FetchAttendance(n)

LedgerSpec == Init /\ [][LedgerNext]_vars

\* the attendance ledger under concurrent callers: record_attendance is three
\* steps, its SELECT, its reading of the clock and its INSERT, and other
\* callers run in between
ConcNext ==
    \/ Tick
    \/ \E p \in Procs, n \in Names, r \in RegNos, pl \in Payloads :
          RecordSelect(p, n, r, pl[1], pl[2])
    \/ \E p \in Procs : RecordStamp(p)
    \/ \E p \in Procs : RecordInsert(p)
    \/ \E n \in Names : FetchAttendance(n)

ConcSpec == Init /\ [][ConcNext]_vars

\* the token codec at one clock reading: tokens are made, taken apart again,
\* and presented to token_valid while sessions of their names are started
CodecNext ==
    \/ \E n \in CodecNames : StartSession(n)
    \/ \E n \in CodecNames, i \in CodecIntervals : MakeToken(n, i)
    \/ DecodeToken
    \/ \E tok \in CodecTokens : ValidateToken(tok)

CodecSpec == Init /\ [][CodecNext]_vars

----------------------------------------------------------------------------
(* Properties *)

\* rows of the attendance table for one (session_name, reg_no) pair
PairRows(A, session_name, reg_no) ==
    { i \in 1..Len(A) : A[i].session_name = session_name /\ A[i].reg_no = reg_no }

\* entries of a fetch_attendance result for one reg_no
Entries(list, reg_no) == { i \in 1..Len(list) : list[i][1] = reg_no }

\* C1: under every interleaving of concurrent record_attendance calls the
\* attendance table never holds two rows with the same (session_name, reg_no).
C1_UniquePair ==
    \A n \in Names, r \in RegNos : Cardinality(PairRows(attendance, n, r)) <= 1

\* C2: with calls run one at a time, a record_attendance call for a pair with no
\* row returns (True, "Attendance marked.") and appends exactly one row holding
\* its arguments; a call for a pair that has a row returns (False, already
\* submitted) whatever its token and token_ts and leaves the table as it was;
\* either way fetch_attendance(session_name) then lists the participant once.
C2_SequentialDedup ==
    [][ \A n \in Names, r \in RegNos, pl \in Payloads :
          RecordAttendance(n, r, pl[1], pl[2]) =>
            /\ IF PairRows(attendance, n, r) = {}
               THEN /\ ret'.res = Result(TRUE, None, MsgMarked)
                    /\ Len(attendance') = Len(attendance) + 1
                    /\ SubSeq(attendance', 1, Len(attendance)) = attendance
                    /\ attendance'[Len(attendance')] =
                          [session_name |-> n, reg_no |-> r, token |-> pl[1],
                           token_ts |-> pl[2], submit_ts |-> now]
               ELSE /\ ret'.res = Result(FALSE, None, MsgDuplicate)
                    /\ attendance' = attendance
            /\ Cardinality(PairRows(attendance', n, r)) = 1
            /\ Cardinality(Entries(fetch_attendance(attendance', n), r)) = 1
      ]_vars

\* C2 witness: a second call for a recorded pair, with another token and token_ts,
\* has returned the duplicate message while other participants' rows exist
C2_Witness ==
    /\ ret.op = "record_attendance"
    /\ ret.res = Result(FALSE, None, MsgDuplicate)
    /\ Len(attendance) >= 2
    /\ \E i \in 1..Len(attendance) :
          /\ attendance[i].session_name = ret.args[1]
          /\ attendance[i].reg_no = ret.args[2]
          /\ attendance[i].token # ret.args[3]
          /\ attendance[i].token_ts # ret.args[4]
          /\ attendance[i].submit_ts < ret.at

\* interval i is within the validity window at clock reading t
Within(t, i) == t - i * QR_REFRESH <= TOKEN_WINDOW /\ i * QR_REFRESH - t <= TOKEN_WINDOW

\* C3: the validity window is symmetric.  A well-formed token whose
\* token_ts = interval * QR_REFRESH is more than TOKEN_WINDOW away from the clock,
\* on either side, is rejected as expired; one within the window that names a
\* session with a row and no end time is accepted with that token_ts.
C3_SymmetricWindow ==
    ret.op = "token_valid" =>
      \A n \in Names, i \in Intervals :
        ret.args = <<make_token(n, i)>> =>
          /\ ~Within(ret.at, i) => ret.res = Result(FALSE, None, MsgExpired)
          /\ (Within(ret.at, i) /\ \E r \in sessions : r.name = n /\ r.ended = 0)
                => ret.res = Result(TRUE, <<i * QR_REFRESH>>, None)

\* C3 witness: a token from TOKEN_WINDOW + 1 seconds in the future, for a running
\* session, was rejected as expired
C3_Witness ==
    /\ ret.op = "token_valid"
    /\ ret.res = Result(FALSE, None, MsgExpired)
    /\ \E n \in Names, i \in Intervals :
          /\ ret.args = <<make_token(n, i)>>
          /\ i * QR_REFRESH - ret.at = TOKEN_WINDOW + 1
          /\ \E r \in sessions : r.name = n /\ r.ended = 0


\* the token of each session name and interval of the model
TokenOf == [n \in Names, i \in Intervals |-> make_token(n, i)]

\* what token_valid returns for make_token(n, i) once the row of n carries an end
\* time: expired outside the window, session ended inside it
EndedResult(t, i) ==
    IF Within(t, i) THEN Result(FALSE, None, MsgEnded) ELSE Result(FALSE, None, MsgExpired)

Rejecting(S, t, n) ==
    \A i \in Intervals : token_valid(S, TokenOf[n, i], t) = EndedResult(t, i)

\* C4 as stated: after end_session(name) on an existing session, validating any
\* token for that name returns "Session has ended.", whatever its interval and
\* whatever the clock reads.
C4_Original ==
    [][ \A n \in Names :
          (EndSession(n) /\ SessionRows(sessions, n) # {}) =>
            \A i \in Intervals :
              token_valid(sessions', TokenOf[n, i], now') = Result(FALSE, None, MsgEnded)
      ]_vars

\* C4 amended: after end_session(name) on an existing session at a non-zero clock
\* reading, and until start_session(name), no token for that name is accepted:
\* token_valid returns "Session has ended." for a token within the window and
\* the expired message for one outside it.  (What token_valid returns depends on
\* the sessions table and the clock alone, so only steps that change one of them
\* are looked at.)
C4_EndedRejects ==
    [][ \A n \in Names :
          /\ (EndSession(n) /\ SessionRows(sessions, n) # {} /\ now # 0)
                => Rejecting(sessions', now', n)
          /\ (~UNCHANGED <<sessions, now>> /\ Rejecting(sessions, now, n) /\ ~StartSession(n))
                => Rejecting(sessions', now', n)
      ]_vars

\* C4 witness: a session was ended at a non-zero clock reading, time has passed,
\* and of its tokens one is now refused as ended and another as expired
C4_Witness ==
    /\ ret.op = "end_session"
    /\ ret.at # 0
    /\ now > ret.at
    /\ \E n \in Names :
          /\ ret.args = <<n>>
          /\ SessionRows(sessions, n) # {}
          /\ \E i \in Intervals : token_valid(sessions, TokenOf[n, i], now).msg = MsgEnded
          /\ \E i \in Intervals : token_valid(sessions, TokenOf[n, i], now).msg = MsgExpired

\* the outcome a returned triple stands for
Outcome(res) ==
    IF res.ok THEN "Valid"
    ELSE IF Len(res.msg) = 2 THEN "InvalidFormat"
    ELSE IF res.msg = MsgFormat THEN "InvalidFormat"
    ELSE IF res.msg = MsgExpired THEN "Expired"
    ELSE IF res.msg = MsgNotFound THEN "SessionNotFound"
    ELSE IF res.msg = MsgEnded THEN "SessionEnded"
    ELSE "other"

\* the outcome the strict order of checks gives make_token(n, i) at clock reading t
OrderedOutcome(S, t, n, i) ==
    IF ~Within(t, i) THEN "Expired"
    ELSE IF \A r \in S : r.name # n THEN "SessionNotFound"
    ELSE IF \E r \in S : r.name = n /\ r.ended # 0 THEN "SessionEnded"
    ELSE "Valid"

\* C5: token_valid checks in strict order and stops at the first failure: format,
\* then the window, then the session's existence, then its end time; every call
\* returns one of the five outcomes, with token_ts only when valid.
C5_StrictOrder ==
    ret.op = "token_valid" =>
      /\ Outcome(ret.res) \in {"InvalidFormat", "Expired", "SessionNotFound",
                               "SessionEnded", "Valid"}
      /\ ret.args[1] \in Malformed => Outcome(ret.res) = "InvalidFormat"
      /\ \A n \in Names, i \in Intervals :
           ret.args = <<make_token(n, i)>> =>
             /\ Outcome(ret.res) = OrderedOutcome(sessions, ret.at, n, i)
             /\ ret.res.val = IF ret.res.ok THEN <<i * QR_REFRESH>> ELSE None

\* C5 witness: an out-of-window token of an ended session was refused as expired
C5_Witness ==
    /\ ret.op = "token_valid"
    /\ Outcome(ret.res) = "Expired"
    /\ \E n \in Names, i \in Intervals :
          /\ ret.args = <<make_token(n, i)>>
          /\ HasEnded(sessions, n)

\* C6 as stated: at every clock reading, start_session(name) makes
\* session_active(name) true, it stays true until end_session(name), which makes
\* it false, and it stays false until start_session(name).
C6_Original ==
    [][ \A n \in Names :
          /\ StartSession(n) => session_active(sessions', n)
          /\ (session_active(sessions, n) /\ ~EndSession(n)) => session_active(sessions', n)
          /\ EndSession(n) => ~session_active(sessions', n)
          /\ (~session_active(sessions, n) /\ ~StartSession(n)) => ~session_active(sessions', n)
      ]_vars

\* C6 amended: the same, for calls made at a non-zero clock reading: a session
\* started while the clock reads 0 has started = 0 and is not reported active.
C6_ActiveBetweenStartAndEnd ==
    [][ \A n \in Names :
          /\ (StartSession(n) /\ now # 0) => session_active(sessions', n)
          /\ (session_active(sessions, n) /\ ~EndSession(n)) => session_active(sessions', n)
          /\ EndSession(n) => ~session_active(sessions', n)
          /\ (~session_active(sessions, n) /\ ~StartSession(n)) => ~session_active(sessions', n)
      ]_vars

\* C6 witness: a session started at a non-zero clock reading is still reported
\* active after time has passed
C6_Witness ==
    /\ ret.op = "start_session"
    /\ ret.at # 0
    /\ now > ret.at
    /\ session_active(sessions, ret.args[1])

OneRowPerName(S) == \A r1, r2 \in S : r1.name = r2.name => r1 = r2

\* C7: start_session is an upsert: the table never holds two rows for a name, and
\* start_session on a name whose row carries an end time makes session_active
\* true again, with started set to the clock reading and ended cleared.
C7_Restart ==
    /\ [] OneRowPerName(sessions)
    /\ [][ \A n \in Names :
             StartSession(n) =>
               /\ \E r \in sessions' : r.name = n /\ r.started = now /\ r.ended = 0
               /\ HasEnded(sessions, n) => session_active(sessions', n)
         ]_vars

\* C7 witness: start_session found its row ended and the session is active again
C7_Witness ==
    /\ ret.op = "start_session"
    /\ was_ended
    /\ session_active(sessions, ret.args[1])
    /\ \E r \in sessions : r.name = ret.args[1] /\ r.started = ret.at /\ r.ended = 0

\* C8: end_session(name) returns normally, never adds a row and never touches the
\* attendance table or another session's row; for a name without a row it changes
\* nothing at all.
C8_EndSessionFrame ==
    [][ \A n \in Names :
          EndSession(n) =>
            /\ ret'.res = Result(TRUE, None, None)
            /\ attendance' = attendance
            /\ { r.name : r \in sessions' } = { r.name : r \in sessions }
            /\ Cardinality(sessions') = Cardinality(sessions)
            /\ { r \in sessions' : r.name # n } = { r \in sessions : r.name # n }
            /\ SessionRows(sessions, n) = {} => sessions' = sessions
      ]_vars

\* C8 witness: end_session of a name without a row has returned, while another
\* session is running and the attendance table is not empty
C8_Witness ==
    /\ ret.op = "end_session"
    /\ attendance # <<>>
    /\ \E n \in Names, m \in Names :
          /\ ret.args = <<n>>
          /\ SessionRows(sessions, n) = {}
          /\ session_active(sessions, m)

\* C9: end_session can be called in any state, and on a session whose row already
\* carries an end time it leaves the session ended: session_active stays false
\* and token_valid answers every token as it did before the call.
C9_EndSessionIdempotent ==
    /\ [] (\A n \in Names : ENABLED EndSession(n))
    /\ [][ \A n \in Names :
             (EndSession(n) /\ HasEnded(sessions, n)) =>
               /\ ret'.res = Result(TRUE, None, None)
               /\ ~session_active(sessions', n)
               /\ \A i \in Intervals : ~token_valid(sessions', TokenOf[n, i], now').ok
               /\ \A tok \in Tokens :
                    token_valid(sessions', tok, now') = token_valid(sessions, tok, now)
         ]_vars

\* C9 witness: end_session has returned on a session that was already ended at an
\* earlier clock reading
C9_Witness ==
    /\ ret.op = "end_session"
    /\ was_ended
    /\ \E r \in sessions : r.name = ret.args[1] /\ r.ended = ret.at /\ r.started < ret.at
    /\ ~session_active(sessions, ret.args[1])

\* C10: token_valid writes nothing and does not use the token up: a call leaves
\* both tables unchanged, a token accepted by the previous call is accepted again
\* with the same answer while it is within the window, and a token stops being
\* accepted only when time passes or a session is ended (a step that changes
\* neither the sessions table nor the clock changes no answer of token_valid).
C10_ValidateIsPure ==
    [][ /\ \A tok \in Tokens :
             (ret'.args = <<tok>> /\ ValidateToken(tok)) =>
               /\ sessions' = sessions
               /\ attendance' = attendance
               /\ \A n \in Names, i \in Intervals :
                    (/\ tok = TokenOf[n, i]
                     /\ ret.op = "token_valid" /\ ret.args = <<tok>> /\ ret.res.ok
                     /\ Within(now, i))
                      => ret'.res = ret.res
        /\ \/ UNCHANGED <<sessions, now>>
           \/ Tick
           \/ \E n \in Names : EndSession(n)
           \/ \A tok \in Tokens :
                 token_valid(sessions, tok, now).ok => token_valid(sessions', tok, now').ok
      ]_vars

\* C10 witness: a token accepted at an earlier clock reading was presented again
\* and accepted again, with sessions and attendance rows in the tables
C10_Witness ==
    /\ again
    /\ ret.op = "token_valid"
    /\ ret.res.ok
    /\ attendance # <<>>

\* C11: attendance rows are immutable and never removed: every step of the core
\* (start_session, a restart included, end_session, token_valid,
\* record_attendance) leaves every existing row in its place with the same
\* field values; the table only grows at its end.
C11_RecordsImmutable ==
    [][ /\ Len(attendance') >= Len(attendance)
        /\ SubSeq(attendance', 1, Len(attendance)) = attendance
      ]_vars

\* C11 witness: a row recorded under a session is still there after the session
\* was ended and then started again at a later clock reading
C11_Witness ==
    /\ ret.op = "start_session"
    /\ was_ended
    /\ attendance # <<>>
    /\ attendance[1].session_name = ret.args[1]
    /\ attendance[1].submit_ts < ret.at

\* the token of each name and interval of the codec
CodecTokenOf == [n \in CodecNames, i \in CodecIntervals |-> make_token(n, i)]

\* what token_valid returns for an in-window token of session n
LookedUp(S, n, token_ts) ==
    IF SessionRows(S, n) = {} THEN Result(FALSE, None, MsgNotFound)
    ELSE IF HasEnded(S, n) THEN Result(FALSE, None, MsgEnded)
    ELSE Result(TRUE, <<token_ts>>, None)

\* C12: token round trip.  For a session name without "|" and any interval,
\* taking the token make_token(name, interval) apart gives back exactly
\* (name, interval); token_valid on that token, within the window, answers from
\* the row of `name` and returns token_ts = interval * QR_REFRESH.
C12_RoundTrip ==
    [][ /\ DecodeToken => ret'.res = Result(TRUE, <<ret.args[1], ret.args[2]>>, None)
        /\ \A n \in CodecNames, i \in CodecIntervals :
              (/\ ret'.args = <<CodecTokenOf[n, i]>>
               /\ ValidateToken(CodecTokenOf[n, i])
               /\ Within(now, i))
                 => ret'.res = LookedUp(sessions, n, i * QR_REFRESH)
      ]_vars

\* C12 witness: a token of a several-character name and a ten-digit interval was
\* made and taken apart again
C12_Witness ==
    /\ ret.op = "decode"
    /\ Len(ret.args[1]) > 1
    /\ ret.args[2] > 1000000000
    /\ ret.res.ok
    /\ ret.res.val = ret.args

\* C13: a token that does not split into exactly two parts on "|", or whose
\* second part int() refuses, is rejected as badly formatted: token_valid returns
\* (False, None, message) with "Invalid token format." for a wrong number of
\* parts and the text of the ValueError for a non-integer part.  The answer is
\* the one an empty store at clock reading 0 gives: neither the clock nor the
\* sessions table decides it.  The call returns in every state (the exception is
\* caught inside) and writes nothing.
C13_MalformedRejected ==
    /\ [] (\A tok \in Malformed : ENABLED ValidateToken(tok))
    /\ [][ \A tok \in Malformed :
             (ret'.args = <<tok>> /\ ValidateToken(tok)) =>
               /\ ret'.res.ok = FALSE
               /\ ret'.res.val = None
               /\ ret'.res.msg = IF Len(split(tok, "|")) # 2 THEN MsgFormat
                                  ELSE MsgValueError(split(tok, "|")[2])
               /\ Outcome(ret'.res) = "InvalidFormat"
               /\ ret'.res = token_valid({}, tok, 0)
               /\ sessions' = sessions
               /\ attendance' = attendance
         ]_vars

\* C13 witness: a token with a non-integer second part, naming a running session,
\* was rejected with the text of the ValueError at a non-zero clock reading
C13_Witness ==
    /\ ret.op = "token_valid"
    /\ ret.args = <<NameA \o <<"|", "x">> >>
    /\ ret.res = Result(FALSE, None, MsgValueError(<<"x">>))
    /\ ret.at # 0
    /\ session_active(sessions, NameA)

\* C14: while session_active reports a session active, the token made for it at
\* a clock reading t (make_token(name, t // QR_REFRESH)) is accepted at t itself
\* and at every later reading up to token_ts + TOKEN_WINDOW, with that token_ts.
C14_CurrentTokenAccepted ==
    \A n \in Names :
      session_active(sessions, n) =>
        \A t \in Times :
          (t <= now /\ now <= current_interval(t) * QR_REFRESH + TOKEN_WINDOW) =>
            token_valid(sessions, TokenOf[n, current_interval(t)], now)
              = Result(TRUE, <<current_interval(t) * QR_REFRESH>>, None)

\* C14 witness: the token made when a session was started was accepted at a later
\* clock reading, the session still active
C14_Witness ==
    /\ ret.op = "token_valid"
    /\ ret.res.ok
    /\ ret.at = now
    /\ \E r \in sessions :
          /\ session_active(sessions, r.name)
          /\ r.started < now
          /\ ret.args = <<TokenOf[r.name, current_interval(r.started)]>>

\* a deadline is set and the clock has reached it
Pending ==
    /\ view.session_started
    /\ timer_set(view)
    /\ now >= view.session_end_ts[1]

\* a deadline has been reached while the script sleeps after the QR, and the
\* sleep is over: the script is about to rerun itself
TimerDue == Pending /\ run.pc = "sleep" /\ now >= run.slept_at + QR_REFRESH

\* C15: auto-expiry.  Start with Timer m > 0 sets session_end_ts to the clock
\* reading of that statement plus m * 60, and with m = 0 sets none; the timer
\* ends a session only when a deadline is set and the clock has reached it, the
\* session it ends is the running one, and session_active then reports it
\* inactive; no other statement of a run without End ends a session; and while
\* the script keeps rerunning, a deadline that has been reached does not stay
\* pending, and when it stops being pending the session it was set for is
\* inactive in the sessions table, unless Start has started that very session
\* again.
C15_AutoExpiry ==
    /\ [][ /\ StartDeadline =>
                view'.session_end_ts = IF run.timer_minutes > 0
                                       THEN <<now + run.timer_minutes * 60>> ELSE None
           /\ TimerCheck => (run'.pc = "autoend" <=> Pending)
           /\ AutoEnd =>
                /\ Pending
                /\ run.read_at >= view.session_end_ts[1]
                /\ sessions' = end_session(sessions, view.running_session_name, run.read_at)
                /\ ~session_active(sessions', view.running_session_name)
                /\ hist'.auto_ended = view.running_session_name
                /\ ~view'.session_started
           /\ (TimerCheck \/ AutoEndRead \/ ActiveCheck \/ RenderToken \/ Rerun \/ Interact
                 \/ StartRead \/ StartDeadline)
                => sessions' = sessions
           /\ (Pending /\ ~Pending') =>
                \/ ~session_active(sessions', hist.timed)
                \/ StartDeadline /\ view.running_session_name = hist.timed
         ]_vars
    /\ TimerDue ~> ~Pending

\* C18: every session the presenter view has started and that is not its
\* running_session_name is not active in the sessions table.
C18_NoneLeftActive ==
    \A n \in hist.started :
      n # view.running_session_name => ~session_active(sessions, n)

\* C19: the presenter's script renders a token only in a run whose check of the
\* sessions table found the running session active with session_started set;
\* the token is that of the running session and the current interval; and a run
\* whose check finds the session's row with an end time, whoever ended it,
\* renders none and ends without rerunning.
C19_TokenOnlyWhileActive ==
    [][ /\ (hist'.issued # hist.issued /\ hist'.issued # <<>>) =>
              /\ RenderToken
              /\ hist'.issued = make_token(view.running_session_name, current_interval(now))
              /\ view.session_started
        /\ (run'.pc = "token" /\ run.pc # "token") =>
              /\ ActiveCheck
              /\ session_active(sessions, view.running_session_name)
              /\ view.session_started
        /\ run.pc = "token" => view' = view
        /\ (ActiveCheck /\ HasEnded(sessions, view.running_session_name)) =>
              /\ run'.pc = "idle"
              /\ hist'.issued = <<>>
      ]_vars

\* C19 witness: another tab has ended the running session and the next run of
\* the view, its own flag still set, rendered no token
C19_Witness ==
    /\ run.pc = "idle"
    /\ hist.issued = <<>>
    /\ view.session_started
    /\ view.running_session_name # <<>>
    /\ HasEnded(sessions, view.running_session_name)
    /\ ret.op = "page"

\* C16: the mark page never adds an attendance row under a session name that,
\* when that submission was validated, had no row in the sessions table or had
\* an end time.
C16_RecordedUnderOpenSession ==
    [][ Len(attendance') > Len(attendance) => call[Browser].session_open ]_vars

\* C17: every attendance row written by the mark page is bound to its token: its
\* session_name is the name the stored token encodes and its token_ts is the
\* interval the token encodes times QR_REFRESH.
C17_RecordBoundToToken ==
    \A i \in 1..Len(attendance) :
      LET d == decode(attendance[i].token)
      IN  /\ d.ok
          /\ attendance[i].session_name = d.session_name
          /\ attendance[i].token_ts = d.interval * QR_REFRESH

====
